---- MODULE Spec2Model ----
(***************************************************************************)
(* CuteJson: the recursive-descent parser of src/cutejson.cpp.             *)
(*                                                                         *)
(* A text is a sequence of characters, each character a TLA+ string.       *)
(* Indices i, off, eaten are the C++ zero-based indices; At() does the     *)
(* translation to TLA+'s one-based sequences.                              *)
(*                                                                         *)
(* Parse() recurses on json.substr(i), a view that always extends to the   *)
(* end of the one underlying buffer.  json[i] with i >= json.size() is     *)
(* undefined behaviour; what it yields is the memory behind the buffer,    *)
(* modelled by `past`: the mapped bytes behind the buffer, arbitrary, and  *)
(* a fault when the read goes behind those.                                *)
(***************************************************************************)
EXTENDS Integers, Sequences, FiniteSets, TLC

VARIABLES json,   \* the text handed to the outermost Parse
          past,   \* the bytes in memory right behind the text
          lit,    \* how the text was assembled (ghost; never read by Parse)
          pc,     \* "start" before the call of Parse, "done" after it
          obj,    \* the JsonObject returned
          eaten,  \* the size_t returned
          bad,    \* TRUE iff some json[i] was evaluated with i >= json.size()
          fault   \* "none", or how the call ended without returning

vars == <<json, past, lit, pc, obj, eaten, bad, fault>>

---------------------------------------------------------------------------
(* Characters *)

SP  == " "
LF  == "\n"
CR  == "\r"
TAB == "\t"
FF  == "\f"
VT  == "VT"
BS  == "BS"
BEL == "BEL"
NUL == "NUL"
QUOTE == "\""
BACKSLASH == "\\"

Digits == {"0", "1", "2", "3", "4", "5", "6", "7", "8", "9"}

IsDigit(c) == c \in Digits

IsSign(c) == c \in {"+", "-"}

\* The argument of find_first_not_of is a C string: it ends at its first NUL,
\* so the set holds six characters.
Whitespace == {SP, LF, CR, TAB, VT, FF}

npos == 0 - 1

---------------------------------------------------------------------------
(* The value model *)

JNull == [kind |-> "Null", v |-> 0]

JBool(b) == [kind |-> "Bool", v |-> b]

JInt(n) == [kind |-> "Int", v |-> n]

\* A double is kept as its decimal value: (neg ? -1 : 1) * digs * 10^exp,
\* digs a digit string without leading or trailing zeros (empty for zero).
JDouble(neg, digs, exp) ==
    [kind |-> "Double", v |-> [neg |-> neg, digs |-> digs, exp |-> exp]]

JString(s) == [kind |-> "String", v |-> s]

JList(l) == [kind |-> "List", v |-> l]

JDict(d) == [kind |-> "Dict", v |-> d]

EmptyDict == [k \in {} |-> JNull]

\* insert_or_assign in the place of try_emplace: the last pair of a key wins
TryEmplaceOverwrite(res, key, val) ==
    [k \in DOMAIN res \cup {key} |-> IF k = key THEN val ELSE res[k]]

\* std::unordered_map::try_emplace: nothing happens when the key is present.
TryEmplace(res, key, val) ==
    IF key \in DOMAIN res
    THEN res
    ELSE [k \in DOMAIN res \cup {key} |-> IF k = key THEN val ELSE res[k]]

---------------------------------------------------------------------------
(* What a call of Parse yields *)

Ret(o, n) == [obj |-> o, eaten |-> n, bad |-> FALSE, fault |-> "none"]

Fault(f, b) == [obj |-> JNull, eaten |-> 0, bad |-> b, fault |-> f]

Size(s) == Len(s)

\* json.substr(pos), for pos <= json.size()
Substr(s, pos) == SubSeq(s, pos + 1, Len(s))

\* json[i]: the character, and whether the index was outside the view.
\* Behind the mapped bytes the read faults.
At(s, p, i) ==
    IF i < Len(s) THEN [ch |-> s[i + 1], oob |-> FALSE, segv |-> FALSE]
    ELSE IF i - Len(s) < Len(p)
         THEN [ch |-> p[i - Len(s) + 1], oob |-> TRUE, segv |-> FALSE]
         ELSE [ch |-> NUL, oob |-> TRUE, segv |-> TRUE]

---------------------------------------------------------------------------
(* std::regex_search with num_re: an optional sign, one or more digits, an *)
(* optional fraction (a dot and any number of digits), an optional         *)
(* exponent (e or E, an optional sign, one or more digits)                 *)

RECURSIVE DigitsEnd(_, _)
\* the index behind the longest run of digits that starts at index i
DigitsEnd(s, i) ==
    IF i < Len(s) /\ IsDigit(s[i + 1]) THEN DigitsEnd(s, i + 1) ELSE i

\* The optional exponent group tried at index c: the index behind
\* it, c itself when the group matches nothing.
ExponentEnd(s, c) ==
    IF c < Len(s) /\ s[c + 1] \in {"e", "E"}
    THEN LET d1 == IF c + 1 < Len(s) /\ IsSign(s[c + 2]) THEN c + 2 ELSE c + 1
             d2 == DigitsEnd(s, d1)
         IN  IF d2 > d1 THEN d2 ELSE c
    ELSE c

\* The optional fraction group tried at index b.
FractionEnd(s, b) ==
    IF b < Len(s) /\ s[b + 1] = "." THEN DigitsEnd(s, b + 1) ELSE b

\* The regex tried at index st: the index behind the match, npos when the
\* regex does not match there.
MatchAt(s, st) ==
    LET a == IF st < Len(s) /\ IsSign(s[st + 1]) THEN st + 1 ELSE st
        b == DigitsEnd(s, a)
    IN  IF b > a THEN ExponentEnd(s, FractionEnd(s, b)) ELSE npos

\* regex_search finds the leftmost match anywhere in the text; match.str()
\* is the matched text.
RegexSearch(s) ==
    LET starts == {st \in 0..(Len(s) - 1) : MatchAt(s, st) # npos}
    IN  IF starts = {}
        THEN [found |-> FALSE, str |-> <<>>]
        ELSE LET st == CHOOSE x \in starts : \A y \in starts : x <= y
             IN  [found |-> TRUE, str |-> SubSeq(s, st + 1, MatchAt(s, st))]

---------------------------------------------------------------------------
(* std::from_chars *)

None == [has |-> FALSE]

Some(x) == [has |-> TRUE, val |-> x]

DigitVal(c) ==
    CASE c = "0" -> 0 [] c = "1" -> 1 [] c = "2" -> 2 [] c = "3" -> 3
      [] c = "4" -> 4 [] c = "5" -> 5 [] c = "6" -> 6 [] c = "7" -> 7
      [] c = "8" -> 8 [] c = "9" -> 9

RECURSIVE StripLeadingZeros(_)
StripLeadingZeros(ds) ==
    IF ds # <<>> /\ Head(ds) = "0" THEN StripLeadingZeros(Tail(ds)) ELSE ds

RECURSIVE StripTrailingZeros(_)
StripTrailingZeros(ds) ==
    IF ds # <<>> /\ ds[Len(ds)] = "0"
    THEN StripTrailingZeros(SubSeq(ds, 1, Len(ds) - 1))
    ELSE ds

RECURSIVE DecVal(_)
\* the value of a digit string
DecVal(ds) ==
    IF ds = <<>> THEN 0
    ELSE 10 * DecVal(SubSeq(ds, 1, Len(ds) - 1)) + DigitVal(ds[Len(ds)])

RECURSIVE DigitsLess(_, _)
\* a < b for two digit strings of one length
DigitsLess(a, b) ==
    IF a = <<>> THEN FALSE
    ELSE IF Head(a) # Head(b) THEN DigitVal(Head(a)) < DigitVal(Head(b))
    ELSE DigitsLess(Tail(a), Tail(b))

\* |INT_MIN| = 2^31 and INT_MAX = 2^31 - 1, as digit strings
IntMinDigits == <<"2", "1", "4", "7", "4", "8", "3", "6", "4", "8">>

IntMaxDigits == <<"2", "1", "4", "7", "4", "8", "3", "6", "4", "7">>

\* whether the magnitude ds fits a 32-bit int of the given sign
FitsInt(neg, ds) ==
    LET m   == StripLeadingZeros(ds)
        lim == IF neg THEN IntMinDigits ELSE IntMaxDigits
    IN  \/ Len(m) < Len(lim)
        \/ Len(m) = Len(lim) /\ ~DigitsLess(lim, m)

\* The int value of a sign and a magnitude that fits; INT_MIN is computed
\* without leaving the 32-bit range.
IntOf(neg, ds) ==
    LET m == StripLeadingZeros(ds)
    IN  IF ~neg THEN DecVal(m)
        ELSE IF m = IntMinDigits THEN (0 - DecVal(IntMaxDigits)) - 1
        ELSE 0 - DecVal(m)

\* TryParseNum<int>: from_chars accepts an optional '-' (no '+') and digits, fails on a value
\* outside int, and the whole text must have been used.
TryParseInt(str) ==
    LET neg == str # <<>> /\ str[1] = "-"
        ds  == IF neg THEN Tail(str) ELSE str
    IN  IF ds # <<>> /\ DigitsEnd(ds, 0) = Len(ds) /\ FitsInt(neg, ds)
        THEN Some(IntOf(neg, ds))
        ELSE None

\* the largest and smallest decimal exponents of a finite nonzero double
DBL_MAX_10_EXP == 308

DBL_TRUE_MIN_10_EXP == 0 - 324

\* the decimal value of neg, integer digits ip, fraction digits fp and
\* exponent ex, normalised
Decimal(neg, ip, fp, ex) ==
    LET all  == ip \o fp
        lead == StripLeadingZeros(all)
        digs == StripTrailingZeros(lead)
    IN  IF digs = <<>> THEN JDouble(FALSE, <<>>, 0)
        ELSE JDouble(neg, digs, ex - Len(fp) + (Len(lead) - Len(digs)))

\* the decimal exponent of the leading digit of a normalised nonzero double
Magnitude(d) == d.v.exp + Len(d.v.digs) - 1

\* TryParseNum<double>: from_chars accepts an optional '-' (no '+'), digits,
\* an optional fraction and an optional exponent, fails on a value outside
\* double, and the whole text must have been used.
TryParseDouble(str) ==
    LET neg == str # <<>> /\ str[1] = "-"
        s   == IF neg THEN Tail(str) ELSE str
        b   == DigitsEnd(s, 0)
        c   == FractionEnd(s, b)
        d   == ExponentEnd(s, c)
        ip  == SubSeq(s, 1, b)
        fp  == SubSeq(s, b + 2, c)
        eneg == d > c /\ s[c + 2] = "-"
        eds == StripLeadingZeros(
                   SubSeq(s, IF d > c /\ IsSign(s[c + 2]) THEN c + 3 ELSE c + 2, d))
    IN  IF b = 0 \/ d # Len(s) THEN None
        ELSE IF Len(eds) > 4
             THEN IF StripLeadingZeros(ip \o fp) = <<>>
                  THEN Some(JDouble(FALSE, <<>>, 0))
                  ELSE None
        ELSE LET ex  == IF eneg THEN 0 - DecVal(eds) ELSE DecVal(eds)
                 val == Decimal(neg, ip, fp, ex)
             IN  IF val.v.digs # <<>>
                    /\ (Magnitude(val) > DBL_MAX_10_EXP
                        \/ Magnitude(val) < DBL_TRUE_MIN_10_EXP)
                 THEN None
                 ELSE Some(val)

\* The numeral branch of Parse
ParseNum(s) ==
    LET m == RegexSearch(s)
    IN  IF m.found
        THEN LET n == TryParseInt(m.str)
                 x == TryParseDouble(m.str)
             IN  IF n.has THEN Ret(JInt(n.val), Len(m.str))
                 ELSE IF x.has THEN Ret(x.val, Len(m.str))
                 ELSE Ret(JNull, 0)
        ELSE Ret(JNull, 0)

---------------------------------------------------------------------------
(* The string branch *)

UnescapedChar(c) ==
    CASE c = "n" -> LF
      [] c = "r" -> CR
      [] c = "0" -> NUL
      [] c = "t" -> TAB
      [] c = "v" -> VT
      [] c = "f" -> FF
      [] c = "b" -> BS
      [] c = "a" -> BEL
      [] OTHER -> c

\* The loop body without the Escaped phase: every quote ends the string.
StringStepNoEscape(phase, ch, str) ==
    IF ch = QUOTE
    THEN [stop |-> TRUE, phase |-> "Raw", str |-> str]
    ELSE [stop |-> FALSE, phase |-> "Raw", str |-> Append(str, ch)]

\* What the loop body does with the character ch in the given phase:
\* stop at the closing quote, or go on with a phase and a longer str.
StringStep(phase, ch, str) ==
    IF phase = "Raw"
    THEN IF ch = BACKSLASH
         THEN [stop |-> FALSE, phase |-> "Escaped", str |-> str]
         ELSE IF ch = QUOTE
         THEN [stop |-> TRUE, phase |-> "Raw", str |-> str]
         ELSE [stop |-> FALSE, phase |-> "Raw", str |-> Append(str, ch)]
    ELSE [stop |-> FALSE, phase |-> "Raw", str |-> Append(str, UnescapedChar(ch))]

RECURSIVE ScanString(_, _, _, _)
\* the for loop of the string branch, at index i
ScanString(s, i, phase, str) ==
    IF i < Size(s)
    THEN LET st == StringStep(phase, s[i + 1], str)
         IN  IF st.stop
             THEN Ret(JString(st.str), i + 1)
             ELSE ScanString(s, i + 1, st.phase, st.str)
    ELSE Ret(JString(str), i)

---------------------------------------------------------------------------
(* Parse *)

\* json.find_first_not_of(" \n\r\t\v\f\0")
FindFirstNotOf(s, set) ==
    LET idx == {k \in 0..(Len(s) - 1) : s[k + 1] \notin set}
    IN  IF idx = {} THEN npos
        ELSE CHOOSE x \in idx : \A y \in idx : x <= y

\* the result r of a recursive call, with the caller's reads added
Noting(r, b) == [r EXCEPT !.bad = r.bad \/ b]

\* if (json[i] == c) ++i; the index afterwards
SkipIf(a, c, i) == IF a.ch = c THEN i + 1 ELSE i

RECURSIVE Parse(_, _)
RECURSIVE ListLoop(_, _, _, _, _)
RECURSIVE DictLoop(_, _, _, _, _)

\* The list branch after the recursive call returned r at index i.
ListElement(s, p, i, res, b, r) ==
    IF r.fault # "none" THEN Noting(r, b)
    ELSE IF r.eaten = 0 THEN Noting(Ret(JList(res), 0), b \/ r.bad)
    ELSE LET j == i + r.eaten
             a == At(s, p, j)
         IN  IF a.segv THEN Fault("segv", TRUE)
             ELSE ListLoop(s, p, SkipIf(a, ",", j), Append(res, r.obj),
                           b \/ r.bad \/ a.oob)

\* The for loop of the list branch, at index i with res collected.
ListLoop(s, p, i, res, b) ==
    IF i < Size(s)
    THEN IF s[i + 1] = "]"
         THEN Noting(Ret(JList(res), i + 1), b)
         ELSE ListElement(s, p, i, res, b, Parse(Substr(s, i), p))
    ELSE Noting(Ret(JList(res), i), b)

\* The dict branch after the value's recursive call returned r at index i.
DictValue(s, p, i, res, b, key, r) ==
    IF r.fault # "none" THEN Noting(r, b)
    ELSE IF r.eaten = 0 THEN Noting(Ret(JDict(res), 0), b \/ r.bad)
    ELSE LET j == i + r.eaten
             a == At(s, p, j)
         IN  IF a.segv THEN Fault("segv", TRUE)
             ELSE DictLoop(s, p, SkipIf(a, ",", j), TryEmplace(res, key, r.obj),
                           b \/ r.bad \/ a.oob)

\* The dict branch after the key's recursive call returned r at index i.
\* json.substr(pos) throws std::out_of_range when pos > json.size().
DictKey(s, p, i, res, b, r) ==
    IF r.fault # "none" THEN Noting(r, b)
    ELSE IF r.eaten = 0 \/ r.obj.kind # "String"
    THEN Noting(Ret(JDict(res), 0), b \/ r.bad)
    ELSE LET j == i + r.eaten
             a == At(s, p, j)
             k == SkipIf(a, ":", j)
         IN  IF a.segv THEN Fault("segv", TRUE)
             ELSE IF k > Size(s) THEN Fault("out_of_range", TRUE)
             ELSE DictValue(s, p, k, res, b \/ r.bad \/ a.oob, r.obj.v,
                            Parse(Substr(s, k), p))

\* The for loop of the dict branch, at index i with res collected.
DictLoop(s, p, i, res, b) ==
    IF i < Size(s)
    THEN IF s[i + 1] = "}"
         THEN Noting(Ret(JDict(res), i + 1), b)
         ELSE DictKey(s, p, i, res, b, Parse(Substr(s, i), p))
    ELSE Noting(Ret(JDict(res), i), b)

\* The whitespace branch after the recursive call returned r.
SkipWhitespace(r, off) ==
    IF r.fault # "none" THEN r
    ELSE [r EXCEPT !.eaten = r.eaten + off]

\* Parse(json), with p the bytes behind the buffer json is a view of
Parse(s, p) ==
    IF s = <<>> THEN Ret(JNull, 0)
    ELSE LET off == FindFirstNotOf(s, Whitespace)
         IN  IF off # 0 /\ off # npos
             THEN SkipWhitespace(Parse(Substr(s, off), p), off)
             ELSE IF IsDigit(s[1]) \/ s[1] = "+" \/ s[1] = "-" THEN ParseNum(s)
             ELSE IF s[1] = QUOTE THEN ScanString(s, 1, "Raw", <<>>)
             ELSE IF s[1] = "[" THEN ListLoop(s, p, 1, <<>>, FALSE)
             ELSE IF s[1] = "{" THEN DictLoop(s, p, 1, EmptyDict, FALSE)
             ELSE Ret(JNull, 0)

---------------------------------------------------------------------------
(* The caller: one call of Parse on a text *)

RECURSIVE Strings(_, _)
\* every text made of at most n pieces of the set toks
Strings(toks, n) ==
    IF n = 0 THEN {<<>>}
    ELSE LET shorter == Strings(toks, n - 1)
         IN  shorter \cup {x \o t : x \in shorter, t \in toks}

\* the pieces the raw texts are made of
MaxToks == 4

Tokens == {<<"[">>, <<"]">>, <<"{">>, <<"}">>, <<",">>, <<":">>, <<SP>>,
           <<QUOTE>>, <<"1">>, <<"-">>, <<"x">>,
           <<"t", "r", "u", "e">>, <<"n", "u", "l", "l">>}

\* the bytes behind the buffer that a read can tell apart
MaxPast == 1

PastBytes == {",", ":", NUL}

Pasts == Strings({<<c>> : c \in PastBytes}, MaxPast)

Raw == [shape |-> "raw", parts |-> <<>>]

Start ==
    /\ pc = "start"
    /\ obj = JNull
    /\ eaten = 0
    /\ bad = FALSE
    /\ fault = "none"

Init ==
    /\ json \in Strings(Tokens, MaxToks)
    /\ past \in Pasts
    /\ lit = Raw
    /\ Start

\* auto [obj, eaten] = Parse(json);
ParseCall ==
    /\ pc = "start"
    /\ \E r \in {Parse(json, past)} :
           /\ obj' = r.obj
           /\ eaten' = r.eaten
           /\ bad' = r.bad
           /\ fault' = r.fault
    /\ pc' = "done"
    /\ UNCHANGED <<json, past, lit>>

Next == ParseCall

Spec == Init /\ [][Next]_vars

---------------------------------------------------------------------------
(* Texts that are numerals followed by something else *)

NumSigns == <<<<>>, <<"+">>, <<"-">>>>

NumInts == <<<<"0">>, <<"7">>, <<"1", "2">>,
             <<"3", "0", "0", "0", "0", "0", "0", "0", "0", "0">>>>

NumFractions == <<<<>>, <<".">>, <<".", "5">>, <<".", "2", "5">>>>

\* an exponent as written, its sign and its digits
NumExponents == <<[text |-> <<>>, neg |-> FALSE, digs |-> <<>>],
                  [text |-> <<"e", "2">>, neg |-> FALSE, digs |-> <<"2">>],
                  [text |-> <<"E", "-", "1">>, neg |-> TRUE, digs |-> <<"1">>],
                  [text |-> <<"e", "+", "3">>, neg |-> FALSE, digs |-> <<"3">>]>>

NumRests == <<<<",">>, <<"]">>, <<SP>>, <<"x">>>>

\* The numeral sign ip frac exp: its text, the case the value model gives it
\* (Int without fraction and exponent) and its arithmetic value.
Numeral(sign, ip, frac, exp) ==
    [text |-> sign \o ip \o frac \o exp.text,
     kind |-> IF frac = <<>> /\ exp.text = <<>> THEN "Int" ELSE "Double",
     val  |-> Decimal(sign = <<"-">>, ip, IF frac = <<>> THEN <<>> ELSE Tail(frac),
                      IF exp.neg THEN 0 - DecVal(exp.digs) ELSE DecVal(exp.digs)).v]

InitNum ==
    /\ \E a \in DOMAIN NumSigns, b \in DOMAIN NumInts, c \in DOMAIN NumFractions,
          d \in DOMAIN NumExponents, e \in DOMAIN NumRests :
          LET n == Numeral(NumSigns[a], NumInts[b], NumFractions[c], NumExponents[d])
          IN  /\ lit = [shape |-> "num", parts |-> <<n>>]
              /\ json = n.text \o NumRests[e]
    /\ past \in Pasts
    /\ Start

SpecNum == InitNum /\ [][Next]_vars

---------------------------------------------------------------------------
(* Texts that are List and Dict literals *)

\* the elements a literal is made of: the text and the value it stands for
Elems ==
    << [text |-> <<"1">>, val |-> JInt(1)],
       [text |-> <<"2">>, val |-> JInt(2)],
       [text |-> <<QUOTE, "a", "]", QUOTE>>, val |-> JString(<<"a", "]">>)],
       [text |-> <<QUOTE, ",", BACKSLASH, QUOTE, "}", QUOTE>>,
        val  |-> JString(<<",", QUOTE, "}">>)],
       [text |-> <<"[", "2", ",", QUOTE, ":", QUOTE, "]">>,
        val  |-> JList(<<JInt(2), JString(<<":">>)>>)] >>

Keys ==
    << [text |-> <<QUOTE, "a", QUOTE>>, val |-> JString(<<"a">>)],
       [text |-> <<QUOTE, BACKSLASH, QUOTE, "}", ":", QUOTE>>,
        val  |-> JString(<<QUOTE, "}", ":">>)] >>

\* the values of a Dict literal are the first of Elems
DictElems == 1..3

Blanks == <<<<>>, <<SP>>>>

MaxElems == 2

MaxPairs == 3

RECURSIVE Join(_, _)
\* the texts one after the other, sep between two of them
Join(ss, sep) ==
    IF ss = <<>> THEN <<>>
    ELSE IF Len(ss) = 1 THEN Head(ss)
    ELSE Head(ss) \o sep \o Join(Tail(ss), sep)

\* a List literal: each element with the blanks before and after it
ListText(parts) ==
    <<"[">> \o Join([k \in DOMAIN parts |->
                        parts[k].pre \o parts[k].text \o parts[k].post], <<",">>)
            \o <<"]">>

\* a Dict literal
DictText(parts) ==
    <<"{">> \o Join([k \in DOMAIN parts |->
                        parts[k].key.text \o <<":">> \o parts[k].text], <<",">>)
            \o <<"}">>

InitList ==
    \E n \in 0..MaxElems :
       \E e \in [1..n -> DOMAIN Elems], b \in [1..n -> DOMAIN Blanks],
          a \in [1..n -> DOMAIN Blanks] :
          LET parts == [k \in 1..n |->
                          [pre |-> Blanks[b[k]], text |-> Elems[e[k]].text,
                           post |-> Blanks[a[k]], val |-> Elems[e[k]].val]]
          IN  /\ lit = [shape |-> "list", parts |-> parts]
              /\ json = ListText(parts)

InitDict ==
    \E n \in 0..MaxPairs :
       \E e \in [1..n -> DictElems], c \in [1..n -> DOMAIN Keys] :
          LET parts == [k \in 1..n |->
                          [key |-> Keys[c[k]], text |-> Elems[e[k]].text,
                           val |-> Elems[e[k]].val]]
          IN  /\ lit = [shape |-> "dict", parts |-> parts]
              /\ json = DictText(parts)

\* the literals of main
list_json ==
    <<"[", "4", "2", ",", "[", "2", "2", "2", ",", QUOTE, "d", "a",
      "s", "d", "a", "]", QUOTE, ",", "1", "5", "]", ",", "1", "2",
      ",", "3", ",", "4", "]">>

dict_json ==
    <<SP, SP, SP, SP, "{", QUOTE, "n", "u", "m", QUOTE, ":", "1", "2",
      "3", ",", QUOTE, "s", "t", "r", QUOTE, ":", QUOTE, "9", "9", "6",
      QUOTE, ",", QUOTE, "l", "i", "s", "t", QUOTE, ":", "[", "1", "2",
      ",", QUOTE, "d", "a", QUOTE, ",", "[", "3", ",", QUOTE, "[", "d",
      "]", QUOTE, "]", "]", "}">>

InitMain ==
    /\ json \in {list_json, dict_json}
    /\ lit = [shape |-> "main", parts |-> <<>>]

InitLit ==
    /\ InitList \/ InitDict \/ InitMain
    /\ past \in Pasts
    /\ Start

SpecLit == InitLit /\ [][Next]_vars

---------------------------------------------------------------------------
(* The claims *)

Done == pc = "done" /\ fault = "none"

Parts == lit.parts

\* C1: a text that opens a List or a Dict and holds no closing bracket at
\* all makes the outermost Parse return consumedCount = 0.
C1_UnclosedYieldsZero ==
    (/\ Done
     /\ json # <<>>
     /\ json[1] \in {"[", "{"}
     /\ \A k \in DOMAIN json : json[k] \notin {"]", "}"})
    => eaten = 0

\* C2: whenever Parse returns consumedCount = 0, the value that comes with
\* it is Null; no List or Dict of the elements collected so far is returned.
C2_ZeroComesWithNull ==
    (Done /\ eaten = 0) => obj = JNull

\* C3: a Null value is returned only together with consumedCount = 0; when
\* the text behind leading whitespace fails to parse, the count is 0 and not
\* the number of whitespace characters skipped.
C3_NullComesWithZero ==
    (Done /\ obj.kind = "Null") => eaten = 0

DigitChar(d) == <<"0", "1", "2", "3", "4", "5", "6", "7", "8", "9">>[d + 1]

RECURSIVE NatDigits(_)
NatDigits(n) ==
    IF n = 0 THEN <<>> ELSE Append(NatDigits(n \div 10), DigitChar(n % 10))

\* the arithmetic value of a number, as a normalised decimal
ArithValue(o) ==
    IF o.kind = "Int"
    THEN Decimal(o.v < 0, NatDigits(IF o.v < 0 THEN 0 - o.v ELSE o.v), <<>>, 0).v
    ELSE o.v

\* C4: a well-formed numeral followed by a non-numeral character is parsed
\* with consumedCount the numeral's length, to its arithmetic value, of case
\* Int without fraction and exponent and of case Double otherwise.
C4_NumeralValue ==
    (pc = "done" /\ lit.shape = "num")
    => /\ fault = "none"
       /\ eaten = Len(Parts[1].text)
       /\ obj.kind = Parts[1].kind
       /\ ArithValue(obj) = Parts[1].val

\* C5: a text that starts with a sign that no digit follows has no numeral
\* at index 0, and Parse returns (Null, 0) for it.
C5_NumeralOnlyAtStart ==
    (/\ Done
     /\ json # <<>>
     /\ IsSign(json[1])
     /\ (Len(json) < 2 \/ ~IsDigit(json[2])))
    => (obj = JNull /\ eaten = 0)

\* the List a List literal stands for
ListOf(parts) == JList([k \in DOMAIN parts |-> parts[k].val])

\* C6: a List literal with blanks before and after its elements parses to
\* the List of its elements, in order, and consumedCount is its length.
C6_ListBlanksTransparent ==
    (pc = "done" /\ lit.shape = "list")
    => /\ fault = "none"
       /\ obj = ListOf(Parts)
       /\ eaten = Len(json)

\* C7: a boolean literal parses to a Bool and a null literal to a Null,
\* each with consumedCount the literal's length.
C7_LiteralsOfEveryCase ==
    Done
    => /\ json = <<"t", "r", "u", "e">> => (obj.kind = "Bool" /\ eaten = 4)
       /\ json = <<"n", "u", "l", "l">> => (obj.kind = "Null" /\ eaten = 4)

\* the keys of a Dict literal
KeysOf(parts) == {parts[k].key.val.v : k \in DOMAIN parts}

\* the first pair of a Dict literal with the given key
FirstWith(parts, key) ==
    CHOOSE k \in DOMAIN parts :
        /\ parts[k].key.val.v = key
        /\ \A j \in 1..(k - 1) : parts[j].key.val.v # key

\* C8: the Dict returned for a Dict literal holds each key of the literal
\* once, mapped to the value of the first pair with that key, and the whole
\* literal is consumed, the pairs behind a repeated key included.
C8_FirstWriteWins ==
    (pc = "done" /\ lit.shape = "dict")
    => /\ fault = "none"
       /\ obj.kind = "Dict"
       /\ DOMAIN obj.v = KeysOf(Parts)
       /\ \A key \in KeysOf(Parts) : obj.v[key] = Parts[FirstWith(Parts, key)].val
       /\ eaten = Len(json)

C8_Witness ==
    /\ pc = "done"
    /\ lit.shape = "dict"
    /\ Len(Parts) = 3
    /\ Parts[1].key = Parts[2].key
    /\ Parts[1].val # Parts[2].val
    /\ Parts[3].key # Parts[1].key
    /\ obj.kind = "Dict"
    /\ Cardinality(DOMAIN obj.v) = 2
    /\ obj.v[Parts[1].key.val.v] = Parts[1].val
    /\ eaten = Len(json)

\* a List literal without blanks behind its elements
NoBlankBehind(parts) == \A k \in DOMAIN parts : parts[k].post = <<>>

\* whether the text holds c between two quotes that belong together
HoldsInString(text, c) ==
    \E k \in 2..(Len(text) - 1) : text[k] = c /\ text[1] = QUOTE

\* C9: a String inside a List or Dict literal is scanned to its closing
\* unescaped quote, so the brackets, commas, colons and escaped quotes in it
\* are its content: the List has the literal's elements, the Dict the
\* literal's keys, and consumedCount is the literal's length; so it is for
\* the two literals of main.
C9_StringsKeepDelimiters ==
    /\ (pc = "done" /\ lit.shape = "list" /\ NoBlankBehind(Parts))
       => /\ fault = "none"
          /\ obj.kind = "List"
          /\ Len(obj.v) = Len(Parts)
          /\ \A k \in DOMAIN Parts : obj.v[k] = Parts[k].val
          /\ eaten = Len(json)
    /\ (pc = "done" /\ lit.shape = "dict")
       => /\ fault = "none"
          /\ obj.kind = "Dict"
          /\ Cardinality(DOMAIN obj.v) = Cardinality(KeysOf(Parts))
          /\ \A k \in DOMAIN Parts : Parts[k].key.val.v \in DOMAIN obj.v
          /\ eaten = Len(json)
    /\ (pc = "done" /\ json = list_json)
       => /\ fault = "none"
          /\ obj.kind = "List"
          /\ Len(obj.v) = 5
          /\ obj.v[2] = JList(<<JInt(222),
                                JString(<<"d", "a", "s", "d", "a", "]">>),
                                JInt(15)>>)
          /\ eaten = Len(list_json)
    /\ (pc = "done" /\ json = dict_json)
       => /\ fault = "none"
          /\ obj.kind = "Dict"
          /\ DOMAIN obj.v = {<<"n", "u", "m">>, <<"s", "t", "r">>,
                             <<"l", "i", "s", "t">>}
          /\ obj.v[<<"l", "i", "s", "t">>].v[3] =
                 JList(<<JInt(3), JString(<<"[", "d", "]">>)>>)
          /\ eaten = Len(dict_json)

C9_Witness ==
    /\ pc = "done"
    /\ lit.shape = "list"
    /\ Len(Parts) = 2
    /\ NoBlankBehind(Parts)
    /\ HoldsInString(Parts[1].text, "]")
    /\ HoldsInString(Parts[2].text, BACKSLASH)
    /\ obj.kind = "List"
    /\ Len(obj.v) = 2
    /\ obj.v[2] = JString(<<",", QUOTE, "}">>)
    /\ eaten = Len(json)

\* C10: Parse evaluates json[i] only with i < json.size().
C10_ReadsInBounds ==
    pc = "done" => ~bad

====
